---- MODULE Spec2Model ----
(***************************************************************************)
(* State machine of the game state store of src/hooks/useGameState.ts and  *)
(* of the answers the Combat component defers.                             *)
(*                                                                         *)
(* The store is a React state cell.  Every operation enqueues updater      *)
(* functions prev -> next, which React applies in the order they were      *)
(* enqueued; an updater enqueued while another one runs (attack calls      *)
(* updateStatistics and updateKnowledgeStreak from inside its updater) is  *)
(* applied after the running one.  Each updater is an operator here        *)
(* (name + "U": state -> state) and each action composes the updaters its  *)
(* handler enqueues, in order.  Values a handler reads from its closure    *)
(* (gameState.coins, gameState.zone, gameState.knowledgeStreak.multiplier, *)
(* the item objects the presentation passes in) come from the last         *)
(* rendered snapshot, the variable view, which lags behind gs until the    *)
(* Render step.                                                            *)
(*                                                                         *)
(* Numbers: multipliers are kept as integers (streak multiplier in tenths, *)
(* mode multipliers in hundredths) and every Math.floor is an integer      *)
(* division.  The IEEE double results of the source agree with the exact   *)
(* quotients for every reward the specifications below compute (streaks    *)
(* below 10 in any mode; any streak in normal and survival mode at the    *)
(* zones and draws explored).  The double 1 + 7 * 0.1 is one unit in the   *)
(* last place above 1.7; it is kept as 17 tenths.                          *)
(*                                                                         *)
(* The specifications share the variables and the actions and differ in    *)
(* the operations they let run and in what waits in storage: Spec (combat  *)
(* and progression), SpecShop (chests, selling, equipping, research),      *)
(* SpecUpgrade (upgrades of items of any cost and price), SpecStreak and   *)
(* SpecSurvival (long streaks), SpecSession (persistence), SpecModes       *)
(* (game modes over every gem draw) and SpecCombat (answers given through  *)
(* the Combat component, whose attack is deferred).                        *)
(***************************************************************************)
EXTENDS Integers, Sequences, FiniteSets, TLC

VARIABLES
    gs,         \* the GameState held by useState (line 91), all queued updaters applied
    view,       \* what the last render captured in the handlers' closures
    dirty,      \* number of handler runs since the last render
    isLoading,  \* line 92
    storage,    \* AsyncStorage[STORAGE_KEY]: <<>> or <<blob>>
    achTimers,  \* pending setTimeout(checkAndUnlockAchievements, 100) of attack
    nextId,     \* the content generator's id source
    answers     \* pending setTimeout(..., 2000) of the Combat component, oldest first

vars == <<gs, view, dirty, isLoading, storage, achTimers, nextId, answers>>

----------------------------------------------------------------------------
(* Bounds of the model *)

MaxQuestions == 5    \* answered questions (statistics.totalQuestionsAnswered)
MaxZone == 3         \* no fight is started at this zone
MaxIds == 3          \* items the generators produce in a session
MaxLevel == 2        \* item level
MaxResearch == 1     \* research level
MaxPlayTime == 1     \* timer ticks
MaxTimers == 1       \* pending achievement timers
MaxBatch == 2        \* handler runs between two renders
MaxCost == 4         \* upgradeCost of a stocked item
MaxPrice == 6        \* sellPrice of a stocked item
MaxStreak == 56      \* streak of a stored game
MaxAnswers == 2      \* answers whose reveal delay is running

(* Program constants *)

InitialCoins == 100
InitialHp == 200
BaseAtk == 50
BaseDef == 0
BaseHp == 200
InitialLives == 3
ResearchCost == 150
MythicalChestCost == 2500

Modes == {"normal", "speed", "survival"}
Rarities == {"common", "rare", "epic", "legendary", "mythical"}
Categories == {"science"}

(* chest prices offered by the shop; 2500 is the mythical chest of line 507 *)
ChestCosts == {100, MythicalChestCost}

(* draws of Math.random the model enumerates *)
CoinDraws == {14}           \* Math.floor(Math.random() * 15), line 630
GemDraws == {3}             \* Math.floor(Math.random() * 3) + 1, line 631
BonusGemDraws == {5, 14}    \* Math.floor(Math.random() * 10) + 5, line 504
NumItemDraws == {2, 3}      \* Math.floor(Math.random() * 2) + 2, line 503

Max(a, b) == IF a >= b THEN a ELSE b
Min(a, b) == IF a <= b THEN a ELSE b

None == <<>>
Some(x) == <<x>>
IsSome(o) == Len(o) = 1
The(o) == o[1]

----------------------------------------------------------------------------
(* Content generators and achievement engine (utils/gameUtils,             *)
(* utils/achievements: not part of the sources at hand)                    *)

calculateResearchBonus(level, tier) == level * 5 + tier * 25

generateEnemy(zone) ==
    [name |-> "Goblin", zone |-> zone,
     hp |-> 20 + 20 * zone, maxHp |-> 20 + 20 * zone,
     atk |-> 100 + 10 * zone, def |-> 5]

generateWeapon(mythical, id) ==
    IF mythical
    THEN [id |-> id, name |-> "Excalibur", rarity |-> "mythical", baseAtk |-> 100,
          level |-> 1, upgradeCost |-> 50, sellPrice |-> 500]
    ELSE [id |-> id, name |-> "Sword", rarity |-> "common", baseAtk |-> 10,
          level |-> 1, upgradeCost |-> 5, sellPrice |-> 25]

generateArmor(mythical, id) ==
    IF mythical
    THEN [id |-> id, name |-> "Aegis", rarity |-> "mythical", baseDef |-> 50,
          level |-> 1, upgradeCost |-> 50, sellPrice |-> 500]
    ELSE [id |-> id, name |-> "Shield", rarity |-> "common", baseDef |-> 10,
          level |-> 1, upgradeCost |-> 5, sellPrice |-> 25]

AchievementIds == {"first_victory", "treasure_hunter"}

initializeAchievements == [a \in AchievementIds |-> FALSE]

AchievementMet(s, a) ==
    IF a = "first_victory" THEN s.zone >= 2 ELSE s.statistics.chestsOpened >= 1

AchievementReward(a) ==
    IF a = "first_victory" THEN [coins |-> 50, gems |-> 0] ELSE [coins |-> 0, gems |-> 5]

(* the achievements newly satisfied in s: locked in the catalog, predicate true *)
checkAchievements(s) == {a \in AchievementIds : ~s.achievements[a] /\ AchievementMet(s, a)}

----------------------------------------------------------------------------
(* Initial values, lines 9-88 *)

initialPlayerStats == [hp |-> InitialHp, maxHp |-> InitialHp, atk |-> BaseAtk, def |-> BaseDef]

initialInventory == [weapons |-> <<>>, armor |-> <<>>, currentWeapon |-> None, currentArmor |-> None]

initialResearch == [level |-> 0, tier |-> 0, totalSpent |-> 0]

initialCollectionBook ==
    [weapons |-> {}, armor |-> {}, totalWeaponsFound |-> 0, totalArmorFound |-> 0,
     rarityStats |-> [r \in Rarities |-> 0]]

(* lastCorrectTime is absent (None), a Date object or, once it went through *)
(* JSON, the ISO string of one; the instant itself is not modelled         *)
initialKnowledgeStreak ==
    [current |-> 0, best |-> 0, multiplier |-> 10, lastCorrectTime |-> None]

initialGameMode ==
    [current |-> "normal", speedModeActive |-> FALSE,
     survivalLives |-> InitialLives, maxSurvivalLives |-> InitialLives]

initialStatistics ==
    [totalQuestionsAnswered |-> 0, correctAnswers |-> 0, totalPlayTime |-> 0,
     zonesReached |-> 1, itemsCollected |-> 0, coinsEarned |-> 0, gemsEarned |-> 0,
     chestsOpened |-> 0,
     accuracyByCategory |-> [c \in Categories |-> [correct |-> 0, total |-> 0]]]

initialGameState ==
    [coins |-> InitialCoins, gems |-> 0, zone |-> 1,
     playerStats |-> initialPlayerStats,
     inventory |-> initialInventory,
     currentEnemy |-> None, inCombat |-> FALSE, combatLog |-> <<>>,
     research |-> initialResearch,
     isPremium |-> FALSE,
     achievements |-> initializeAchievements,
     collectionBook |-> initialCollectionBook,
     knowledgeStreak |-> initialKnowledgeStreak,
     gameMode |-> initialGameMode,
     statistics |-> initialStatistics]

----------------------------------------------------------------------------
(* Helpers on items *)

IsWeapon(item) == "baseAtk" \in DOMAIN item
IsArmor(item) == "baseDef" \in DOMAIN item

(* Array.prototype.find by id: None when absent *)
FindById(items, id) ==
    LET m == SelectSeq(items, LAMBDA x : x.id = id)
    IN  IF m = <<>> THEN None ELSE Some(m[1])

(* Array.prototype.filter(x => x.id !== id) *)
WithoutId(items, id) == SelectSeq(items, LAMBDA x : x.id # id)

----------------------------------------------------------------------------
(* The updaters: prev -> next *)

(* updateCollectionBookU without the early return for a discovered name *)
updateCollectionBookU_Recount(prev, item) ==
    IF IsWeapon(item)
    THEN [prev EXCEPT
            !.collectionBook.weapons = @ \cup {item.name},
            !.collectionBook.totalWeaponsFound = @ + 1,
            !.collectionBook.rarityStats[item.rarity] = @ + 1,
            !.statistics.itemsCollected = @ + 1]
    ELSE [prev EXCEPT
            !.collectionBook.armor = @ \cup {item.name},
            !.collectionBook.totalArmorFound = @ + 1,
            !.collectionBook.rarityStats[item.rarity] = @ + 1,
            !.statistics.itemsCollected = @ + 1]

(* lines 199-229 *)
updateCollectionBookU(prev, item) ==
    LET cb == prev.collectionBook IN
    IF IsWeapon(item)
    THEN IF item.name \in cb.weapons THEN prev
         ELSE [prev EXCEPT
                 !.collectionBook.weapons = @ \cup {item.name},
                 !.collectionBook.totalWeaponsFound = @ + 1,
                 !.collectionBook.rarityStats[item.rarity] = @ + 1,
                 !.statistics.itemsCollected = @ + 1]
    ELSE IF item.name \in cb.armor THEN prev
         ELSE [prev EXCEPT
                 !.collectionBook.armor = @ \cup {item.name},
                 !.collectionBook.totalArmorFound = @ + 1,
                 !.collectionBook.rarityStats[item.rarity] = @ + 1,
                 !.statistics.itemsCollected = @ + 1]

(* StreakMultiplier without the cap of Math.min *)
StreakMultiplier_Uncapped(current) == 10 + (current \div 5)

(* line 235: Math.min(1 + Math.floor(newCurrent / 5) * 0.1, 2), in tenths *)
StreakMultiplier(current) == Min(10 + (current \div 5), 20)

(* updateKnowledgeStreakU that keeps the multiplier when a wrong answer ends the streak *)
updateKnowledgeStreakU_MissKeepsMultiplier(prev, correct) ==
    LET newCurrent == IF correct THEN prev.knowledgeStreak.current + 1 ELSE 0
        newBest == Max(prev.knowledgeStreak.best, newCurrent)
    IN  [prev EXCEPT !.knowledgeStreak =
            [current |-> newCurrent, best |-> newBest,
             multiplier |-> IF correct THEN StreakMultiplier(newCurrent)
                            ELSE prev.knowledgeStreak.multiplier,
             lastCorrectTime |-> IF correct THEN Some("Date")
                                 ELSE prev.knowledgeStreak.lastCorrectTime]]

(* lines 231-254 *)
updateKnowledgeStreakU(prev, correct) ==
    LET newCurrent == IF correct THEN prev.knowledgeStreak.current + 1 ELSE 0
        newBest == Max(prev.knowledgeStreak.best, newCurrent)
    IN  [prev EXCEPT !.knowledgeStreak =
            [current |-> newCurrent, best |-> newBest,
             multiplier |-> StreakMultiplier(newCurrent),
             lastCorrectTime |-> IF correct THEN Some("Date")
                                 ELSE prev.knowledgeStreak.lastCorrectTime]]

(* lines 256-272 *)
updateStatisticsU(prev, category, correct) ==
    LET inc == IF correct THEN 1 ELSE 0 IN
    [prev EXCEPT
        !.statistics.totalQuestionsAnswered = @ + 1,
        !.statistics.correctAnswers = @ + inc,
        !.statistics.accuracyByCategory[category] =
            [correct |-> @.correct + inc, total |-> @.total + 1]]

RECURSIVE SumCoins(_), SumGems(_)
SumCoins(as) ==
    IF as = {} THEN 0
    ELSE LET a == CHOOSE x \in as : TRUE
         IN  AchievementReward(a).coins + SumCoins(as \ {a})
SumGems(as) ==
    IF as = {} THEN 0
    ELSE LET a == CHOOSE x \in as : TRUE
         IN  AchievementReward(a).gems + SumGems(as \ {a})

(* checkAndUnlockAchievementsU that rewards every satisfied achievement again *)
checkAndUnlockAchievementsU_Repaid(prev) ==
    LET met == {a \in AchievementIds : AchievementMet(prev, a)} IN
    IF met # {}
    THEN [prev EXCEPT
            !.coins = @ + SumCoins(met),
            !.gems = @ + SumGems(met),
            !.achievements = [a \in AchievementIds |-> (a \in met) \/ @[a]]]
    ELSE prev

(* checkAndUnlockAchievementsU that credits the rewards and leaves the catalog *)
checkAndUnlockAchievementsU_CatalogKept(prev) ==
    LET newUnlocks == checkAchievements(prev) IN
    [prev EXCEPT !.coins = @ + SumCoins(newUnlocks), !.gems = @ + SumGems(newUnlocks)]

(* lines 274-316 *)
checkAndUnlockAchievementsU(prev) ==
    LET newUnlocks == checkAchievements(prev) IN
    IF newUnlocks # {}
    THEN [prev EXCEPT
            !.coins = @ + SumCoins(newUnlocks),
            !.gems = @ + SumGems(newUnlocks),
            !.achievements = [a \in AchievementIds |-> (a \in newUnlocks) \/ @[a]]]
    ELSE prev

(* line 341 *)
ClampHp(hp, finalMaxHp) == Min(hp, finalMaxHp)

(* updatePlayerStatsU that leaves the levels of the equipped items out *)
updatePlayerStatsU_LevelsIgnored(prev) ==
    LET cw == prev.inventory.currentWeapon
        ca == prev.inventory.currentArmor
        weaponAtk == IF IsSome(cw) THEN The(cw).baseAtk ELSE 0
        armorDef == IF IsSome(ca) THEN The(ca).baseDef ELSE 0
        researchBonus == calculateResearchBonus(prev.research.level, prev.research.tier)
        finalAtk == ((BaseAtk + weaponAtk) * (100 + researchBonus)) \div 100
        finalDef == ((BaseDef + armorDef) * (100 + researchBonus)) \div 100
        finalMaxHp == (BaseHp * (100 + researchBonus)) \div 100
    IN  [prev EXCEPT !.playerStats =
            [atk |-> finalAtk, def |-> finalDef, maxHp |-> finalMaxHp,
             hp |-> ClampHp(prev.playerStats.hp, finalMaxHp)]]

(* lines 318-345 *)
updatePlayerStatsU(prev) ==
    LET cw == prev.inventory.currentWeapon
        ca == prev.inventory.currentArmor
        weaponAtk == IF IsSome(cw) THEN The(cw).baseAtk + (The(cw).level - 1) * 10 ELSE 0
        armorDef == IF IsSome(ca) THEN The(ca).baseDef + (The(ca).level - 1) * 5 ELSE 0
        researchBonus == calculateResearchBonus(prev.research.level, prev.research.tier)
        finalAtk == ((BaseAtk + weaponAtk) * (100 + researchBonus)) \div 100
        finalDef == ((BaseDef + armorDef) * (100 + researchBonus)) \div 100
        finalMaxHp == (BaseHp * (100 + researchBonus)) \div 100
    IN  [prev EXCEPT !.playerStats =
            [atk |-> finalAtk, def |-> finalDef, maxHp |-> finalMaxHp,
             hp |-> ClampHp(prev.playerStats.hp, finalMaxHp)]]

(* setGameModeU that refills the lives on every change of mode *)
setGameModeU_LivesRefilled(prev, mode) ==
    [prev EXCEPT
        !.gameMode.current = mode,
        !.gameMode.speedModeActive = (mode = "speed"),
        !.gameMode.survivalLives = prev.gameMode.maxSurvivalLives]

(* lines 347-357 *)
setGameModeU(prev, mode) ==
    [prev EXCEPT
        !.gameMode.current = mode,
        !.gameMode.speedModeActive = (mode = "speed"),
        !.gameMode.survivalLives =
            IF mode = "survival" THEN prev.gameMode.maxSurvivalLives ELSE @]

(* lines 359-368, the first updater *)
equipWeaponU(prev, weapon) == [prev EXCEPT !.inventory.currentWeapon = Some(weapon)]

(* lines 370-379, the first updater *)
equipArmorU(prev, armor) == [prev EXCEPT !.inventory.currentArmor = Some(armor)]

(* UpgradedItem that leaves the sell price as it was *)
UpgradedItem_PriceKept(w) ==
    [w EXCEPT !.level = @ + 1, !.upgradeCost = (@ * 3) \div 2]

(* lines 388 and 418: the upgraded copy of an item *)
UpgradedItem(w) ==
    [w EXCEPT !.level = @ + 1,
              !.upgradeCost = (@ * 3) \div 2,
              !.sellPrice = (@ * 6) \div 5]

(* lines 392-394 and 422-424: the equipped reference after an upgrade of id *)
UpdatedCurrent(current, updatedItems, id) ==
    IF IsSome(current) /\ The(current).id = id
    THEN FindById(updatedItems, id)
    ELSE current

(* lines 381-407, the first updater *)
upgradeWeaponU(prev, weaponId) ==
    LET weapon == FindById(prev.inventory.weapons, weaponId) IN
    IF ~IsSome(weapon) \/ prev.gems < The(weapon).upgradeCost THEN prev
    ELSE LET updatedWeapons ==
                 [i \in 1..Len(prev.inventory.weapons) |->
                    LET w == prev.inventory.weapons[i]
                    IN  IF w.id = weaponId THEN UpgradedItem(w) ELSE w]
         IN  [prev EXCEPT
                 !.gems = @ - The(weapon).upgradeCost,
                 !.inventory.weapons = updatedWeapons,
                 !.inventory.currentWeapon =
                     UpdatedCurrent(prev.inventory.currentWeapon, updatedWeapons, weaponId)]

(* lines 411-437, the first updater *)
upgradeArmorU(prev, armorId) ==
    LET armor == FindById(prev.inventory.armor, armorId) IN
    IF ~IsSome(armor) \/ prev.gems < The(armor).upgradeCost THEN prev
    ELSE LET updatedArmor ==
                 [i \in 1..Len(prev.inventory.armor) |->
                    LET a == prev.inventory.armor[i]
                    IN  IF a.id = armorId THEN UpgradedItem(a) ELSE a]
         IN  [prev EXCEPT
                 !.gems = @ - The(armor).upgradeCost,
                 !.inventory.armor = updatedArmor,
                 !.inventory.currentArmor =
                     UpdatedCurrent(prev.inventory.currentArmor, updatedArmor, armorId)]

(* SaleRefused without the check of the equipped item *)
SaleRefused_EquippedForgotten(found, current, id) == ~IsSome(found)

(* lines 444 and 460: the guard that refuses a sale *)
SaleRefused(found, current, id) ==
    ~IsSome(found) \/ (IsSome(current) /\ The(current).id = id)

(* lines 441-455 *)
sellWeaponU(prev, weaponId) ==
    LET weapon == FindById(prev.inventory.weapons, weaponId) IN
    IF SaleRefused(weapon, prev.inventory.currentWeapon, weaponId) THEN prev
    ELSE [prev EXCEPT
            !.coins = @ + The(weapon).sellPrice,
            !.inventory.weapons = WithoutId(@, weaponId)]

(* lines 457-471 *)
sellArmorU(prev, armorId) ==
    LET armor == FindById(prev.inventory.armor, armorId) IN
    IF SaleRefused(armor, prev.inventory.currentArmor, armorId) THEN prev
    ELSE [prev EXCEPT
            !.coins = @ + The(armor).sellPrice,
            !.inventory.armor = WithoutId(@, armorId)]

(* lines 473-495, the first updater *)
upgradeResearchU(prev) ==
    IF prev.coins < ResearchCost THEN prev
    ELSE LET newLevel == prev.research.level + 1 IN
         [prev EXCEPT
            !.coins = @ - ResearchCost,
            !.research = [level |-> newLevel, tier |-> newLevel \div 10,
                          totalSpent |-> prev.research.totalSpent + ResearchCost]]

(* lines 525-539: the updater openChest enqueues once its closure check passed *)
openChestU(prev, chestCost, items, finalBonusGems) ==
    [prev EXCEPT
        !.coins = @ - chestCost,
        !.gems = @ + finalBonusGems,
        !.inventory.weapons = @ \o SelectSeq(items, IsWeapon),
        !.inventory.armor = @ \o SelectSeq(items, IsArmor),
        !.statistics.chestsOpened = @ + 1,
        !.statistics.gemsEarned = @ + finalBonusGems]

(* HpAtCombatStart that restores the HP in every mode *)
HpAtCombatStart_AlwaysFull(prev) == prev.playerStats.maxHp

(* line 555 *)
HpAtCombatStart(prev) ==
    IF prev.gameMode.current = "survival" THEN prev.playerStats.hp ELSE prev.playerStats.maxHp

(* lines 549-558 *)
startCombatU(prev, enemy) ==
    [prev EXCEPT
        !.currentEnemy = Some(enemy),
        !.inCombat = TRUE,
        !.playerStats.hp = HpAtCombatStart(prev),
        !.combatLog = <<"encounter">>]

(* lines 578 and 591: Math.max(1, attacker.atk - defender.def) *)
Damage(atk, def) == Max(1, atk - def)

(* HpAfter with the sign of the damage slipped *)
HpAfter_SignSlip(hp, damage) == Max(0, hp + damage)

(* lines 579 and 592: Math.max(0, hp - damage) *)
HpAfter(hp, damage) == Max(0, hp - damage)

(* NextZone that forgets to advance *)
NextZone_Stuck(zone) == zone

(* NextZone that skips a zone *)
NextZone_Skip(zone) == zone + 2

(* line 638 *)
NextZone(zone) == zone + 1

(* LivesAfterLoss that keeps the life *)
LivesAfterLoss_Kept(lives) == lives

(* line 664 *)
LivesAfterLoss(lives) == lives - 1

(* lines 615-628: the reward multipliers in thousandths, [coins, gems] *)
RewardMultipliers(prev) ==
    LET mode == prev.gameMode.current
        coin100 == IF mode = "speed" THEN 150 ELSE IF mode = "survival" THEN 200 ELSE 100
        gem100 == IF mode = "speed" THEN 125 ELSE IF mode = "survival" THEN 200 ELSE 100
    IN  [coins |-> coin100 * prev.knowledgeStreak.multiplier,
         gems |-> gem100 * prev.knowledgeStreak.multiplier]

(* lines 612-656: the win branch; coinDraw and gemDraw are the two random draws *)
AttackWin(prev, log, coinDraw, gemDraw) ==
    LET m == RewardMultipliers(prev)
        baseCoins == prev.zone * 8 + coinDraw
        baseGems == gemDraw
        coinsEarned == (baseCoins * m.coins) \div 1000
        gemsEarned == (baseGems * m.gems) \div 1000
        newZone == NextZone(prev.zone)
    IN  [prev EXCEPT
            !.coins = @ + coinsEarned,
            !.gems = @ + gemsEarned,
            !.zone = newZone,
            !.isPremium = (newZone >= 50),
            !.currentEnemy = None,
            !.inCombat = FALSE,
            !.combatLog = log \o <<"earned">>,
            !.statistics.zonesReached = Max(@, newZone),
            !.statistics.coinsEarned = @ + coinsEarned,
            !.statistics.gemsEarned = @ + gemsEarned]

(* SurvivalReset that starts the whole game over *)
SurvivalReset_Everything(prev, log) == initialGameState

(* lines 667-684: survival run over, no life left *)
SurvivalReset(prev, log) ==
    [prev EXCEPT
        !.zone = 1,
        !.currentEnemy = None,
        !.inCombat = FALSE,
        !.combatLog = log,
        !.playerStats.hp = 0,
        !.gameMode = [initialGameMode EXCEPT !.current = "normal"],
        !.knowledgeStreak.current = 0]

(* AttackLoss that clears the enemy of an ordinary defeat but stays in combat *)
AttackLoss_StillInCombat(prev, log, newPlayerHp) ==
    IF prev.gameMode.current = "survival"
       /\ LivesAfterLoss(prev.gameMode.survivalLives) <= 0
    THEN SurvivalReset(prev, log)
    ELSE [prev EXCEPT
            !.currentEnemy = None,
            !.combatLog = log,
            !.playerStats.hp = newPlayerHp,
            !.gameMode.survivalLives =
                IF prev.gameMode.current = "survival" THEN LivesAfterLoss(@) ELSE @]

(* lines 657-695: the defeat branch *)
AttackLoss(prev, log, newPlayerHp) ==
    IF prev.gameMode.current = "survival"
       /\ LivesAfterLoss(prev.gameMode.survivalLives) <= 0
    THEN SurvivalReset(prev, log)
    ELSE [prev EXCEPT
            !.currentEnemy = None,
            !.inCombat = FALSE,
            !.combatLog = log,
            !.playerStats.hp = newPlayerHp,
            !.gameMode.survivalLives =
                IF prev.gameMode.current = "survival" THEN LivesAfterLoss(@) ELSE @]

(* line 563 *)
AttackIgnored(prev) == ~IsSome(prev.currentEnemy) \/ ~prev.inCombat

(* lines 562-704: the updater of attack, without the two updaters it enqueues *)
attackU(prev, hit, coinDraw, gemDraw) ==
    IF AttackIgnored(prev) THEN prev
    ELSE
    LET enemy == The(prev.currentEnemy) IN
    IF hit
    THEN LET damage == Damage(prev.playerStats.atk, enemy.def)
             newEnemyHp == HpAfter(enemy.hp, damage)
             log == prev.combatLog \o <<"deal">>
         IN  IF newEnemyHp <= 0
             THEN AttackWin(prev, log \o <<"defeated">>, coinDraw, gemDraw)
             ELSE [prev EXCEPT !.currentEnemy = Some([enemy EXCEPT !.hp = newEnemyHp]),
                               !.combatLog = log]
    ELSE LET damage == Damage(enemy.atk, prev.playerStats.def)
             newPlayerHp == HpAfter(prev.playerStats.hp, damage)
             log == prev.combatLog \o <<"missed">>
             gameOver == prev.gameMode.current = "survival"
                         /\ prev.gameMode.survivalLives - 1 <= 0
         IN  IF newPlayerHp <= 0
             THEN AttackLoss(prev,
                             log \o <<"wasDefeated">>
                                 \o (IF gameOver THEN <<"gameOver">> ELSE <<>>),
                             newPlayerHp)
             ELSE [prev EXCEPT !.playerStats.hp = newPlayerHp,
                               !.combatLog = log]

(* lines 562-570: attack's updater followed by the updaters it enqueues while it runs *)
attackAll(prev, hit, category, coinDraw, gemDraw) ==
    IF AttackIgnored(prev) THEN prev
    ELSE updateKnowledgeStreakU(
             updateStatisticsU(attackU(prev, hit, coinDraw, gemDraw), category, hit), hit)

(* lines 104-110: the play-time interval *)
tickU(prev) == [prev EXCEPT !.statistics.totalPlayTime = @ + 1]

(* stateToSave that forgets to clear the combat fields *)
stateToSave_CombatKept(s) == s

(* lines 157-162: the object saveGameState builds *)
stateToSave(s) == [s EXCEPT !.currentEnemy = None, !.inCombat = FALSE, !.combatLog = <<>>]

(* line 163, JSON.stringify, given as the value JSON.parse (line 122) returns *)
(* for the text: numbers, booleans, strings, null, arrays and objects come   *)
(* back as they were, a Date comes back as its ISO string                    *)
JSONstringify(s) ==
    [s EXCEPT !.knowledgeStreak.lastCorrectTime = IF @ = None THEN None ELSE Some("string")]

(* a || b and a?.f of the source on a field a blob may lack *)
FieldOr(blob, field, default) == IF field \in DOMAIN blob THEN blob[field] ELSE default

(* lines 123-140: the state loadGameState sets from a stored blob *)
loadedState(parsedState) ==
    LET merged == [f \in DOMAIN initialGameState |->
                      FieldOr(parsedState, f, initialGameState[f])]
        storedStatistics == FieldOr(parsedState, "statistics", initialStatistics)
    IN  [merged EXCEPT
            !.currentEnemy = None,
            !.inCombat = FALSE,
            !.combatLog = <<>>,
            !.achievements = FieldOr(parsedState, "achievements", initializeAchievements),
            !.collectionBook = FieldOr(parsedState, "collectionBook", initialCollectionBook),
            !.knowledgeStreak = FieldOr(parsedState, "knowledgeStreak", initialKnowledgeStreak),
            !.gameMode = FieldOr(parsedState, "gameMode", initialGameMode),
            !.statistics = [f \in DOMAIN initialStatistics |->
                               FieldOr(storedStatistics, f, initialStatistics[f])],
            !.research = FieldOr(parsedState, "research", initialResearch),
            !.isPremium = \/ FieldOr(parsedState, "isPremium", FALSE)
                          \/ FieldOr(parsedState, "zone", 0) >= 50]

(* lines 713-720 *)
resetState == initialGameState

(* what a render hands to the handlers it creates (lines 500-501, 522, 548)   *)
(* and the item objects the presentation can pass to equipWeapon / equipArmor *)
Snapshot(s) ==
    [coins |-> s.coins, zone |-> s.zone, multiplier |-> s.knowledgeStreak.multiplier,
     weapons |-> s.inventory.weapons, armor |-> s.inventory.armor]

----------------------------------------------------------------------------
(* The state machine *)

(* A blob an earlier session left in storage: the save that follows a first  *)
(* victory in normal mode (startCombat, one correct answer, the achievement  *)
(* timer, the render).                                                       *)
SavedGame ==
    JSONstringify(stateToSave(
        checkAndUnlockAchievementsU(
            attackAll(startCombatU(initialGameState, generateEnemy(1)),
                      TRUE, "science", 14, 3))))

(* the hook right after mount: a fresh install, or a saved game waiting in storage *)
Init ==
    /\ gs = initialGameState
    /\ view = Snapshot(initialGameState)
    /\ dirty = 0
    /\ isLoading = TRUE
    /\ storage \in {None, Some(SavedGame)}
    /\ achTimers = 0
    /\ nextId = 1
    /\ answers = <<>>

(* the store has an enemy and is in combat: the Combat component is shown *)
InCombat(s) == IsSome(s.currentEnemy) /\ s.inCombat

(* a new encounter begins: the answers still waiting belong to an earlier one *)
Outdated(pending) == [i \in 1..Len(pending) |-> [pending[i] EXCEPT !.stale = TRUE]]

(* the Combat component leaves the screen: its timeouts are not cleared *)
Unmounted(pending) == [i \in 1..Len(pending) |-> [pending[i] EXCEPT !.mounted = FALSE]]

(* Combat, line 39: isAnswering of the component on screen, true from its    *)
(* handleAnswer (line 74) until its timeout has run (line 87)                *)
IsAnswering == \E i \in 1..Len(answers) : answers[i].mounted

(* a handler ran and left the store at next: the closures stay those of the last render *)
Commit(next) ==
    /\ dirty < MaxBatch
    /\ gs' = next
    /\ dirty' = IF next = gs THEN dirty ELSE dirty + 1
    /\ UNCHANGED <<view, isLoading, storage>>

ItemIds(items) == {items[i].id : i \in 1..Len(items)}

(* an id no generated item carries *)
UnknownId == MaxIds + 1

(* the upgrade of id stays within the level bound *)
LevelRoom(items, id) ==
    \A i \in 1..Len(items) : items[i].id = id => items[i].level < MaxLevel

(* lines 102-114 *)
Tick ==
    /\ gs.statistics.totalPlayTime < MaxPlayTime
    /\ Commit(tickU(gs))
    /\ UNCHANGED <<achTimers, nextId, answers>>

(* lines 117-150: the stored blob, if any, replaces the state *)
Load ==
    /\ isLoading
    /\ gs' = IF IsSome(storage) THEN loadedState(The(storage)) ELSE gs
    /\ isLoading' = FALSE
    /\ dirty' = Min(dirty + 1, MaxBatch)
    /\ UNCHANGED <<view, storage, achTimers, nextId, answers>>

(* Render that saves whatever isLoading says *)
Render_SavesWhileLoading ==
    /\ dirty > 0
    /\ view' = Snapshot(gs)
    /\ dirty' = 0
    /\ storage' = Some(JSONstringify(stateToSave(gs)))
    /\ answers' = IF InCombat(gs) THEN answers ELSE Unmounted(answers)
    /\ UNCHANGED <<gs, isLoading, achTimers, nextId>>

(* a render: new closures over the current state, and the save effect of     *)
(* lines 153-171, which writes only once isLoading is false                  *)
Render ==
    /\ dirty > 0
    /\ view' = Snapshot(gs)
    /\ dirty' = 0
    /\ storage' = IF isLoading THEN storage ELSE Some(JSONstringify(stateToSave(gs)))
    /\ answers' = IF InCombat(gs) THEN answers ELSE Unmounted(answers)
    /\ UNCHANGED <<gs, isLoading, achTimers, nextId>>

(* lines 347-357 *)
SetGameMode(mode) ==
    /\ Commit(setGameModeU(gs, mode))
    /\ UNCHANGED <<achTimers, nextId, answers>>

(* lines 359-368 *)
EquipWeapon(weapon) ==
    /\ Commit(updatePlayerStatsU(equipWeaponU(gs, weapon)))
    /\ UNCHANGED <<achTimers, nextId, answers>>

(* lines 370-379 *)
EquipArmor(armor) ==
    /\ Commit(updatePlayerStatsU(equipArmorU(gs, armor)))
    /\ UNCHANGED <<achTimers, nextId, answers>>

(* lines 381-409 *)
UpgradeWeapon(weaponId) ==
    /\ LevelRoom(gs.inventory.weapons, weaponId)
    /\ Commit(updatePlayerStatsU(upgradeWeaponU(gs, weaponId)))
    /\ UNCHANGED <<achTimers, nextId, answers>>

(* lines 411-439 *)
UpgradeArmor(armorId) ==
    /\ LevelRoom(gs.inventory.armor, armorId)
    /\ Commit(updatePlayerStatsU(upgradeArmorU(gs, armorId)))
    /\ UNCHANGED <<achTimers, nextId, answers>>

(* lines 441-455 *)
SellWeapon(weaponId) ==
    /\ Commit(sellWeaponU(gs, weaponId))
    /\ UNCHANGED <<achTimers, nextId, answers>>

(* lines 457-471 *)
SellArmor(armorId) ==
    /\ Commit(sellArmorU(gs, armorId))
    /\ UNCHANGED <<achTimers, nextId, answers>>

(* lines 473-498 *)
UpgradeResearch ==
    /\ gs.research.level < MaxResearch
    /\ Commit(checkAndUnlockAchievementsU(updatePlayerStatsU(upgradeResearchU(gs))))
    /\ UNCHANGED <<achTimers, nextId, answers>>

(* lines 509-514: item i of a chest; kinds[i] is the draw of line 510 *)
ChestItems(kinds, mythical) ==
    [i \in 1..Len(kinds) |->
        IF kinds[i] = "weapon" THEN generateWeapon(mythical, nextId + i - 1)
                               ELSE generateArmor(mythical, nextId + i - 1)]

RECURSIVE RecordAll(_, _)
(* the updateCollectionBook updaters of the loop, in order *)
RecordAll(prev, items) ==
    IF items = <<>> THEN prev
    ELSE RecordAll(updateCollectionBookU(prev, Head(items)), Tail(items))

(* line 501: the check is made on the coins of the handler's closure *)
ChestRefused(chestCost) == view.coins < chestCost

(* lines 521-523 *)
FinalBonusGems(bonusGems) == (bonusGems * view.multiplier) \div 10

(* lines 500-545 *)
OpenChest(chestCost) ==
    IF ChestRefused(chestCost)
    THEN UNCHANGED vars
    ELSE \E numItems \in NumItemDraws, bonusGems \in BonusGemDraws :
         \E kinds \in [1..numItems -> {"weapon", "armor"}] :
            LET items == ChestItems(kinds, chestCost = MythicalChestCost) IN
            /\ nextId + numItems - 1 <= MaxIds
            /\ Commit(checkAndUnlockAchievementsU(
                        openChestU(RecordAll(gs, items), chestCost, items,
                                   FinalBonusGems(bonusGems))))
            /\ nextId' = nextId + numItems
            /\ UNCHANGED <<achTimers, answers>>

(* lines 547-559: the enemy is generated for the zone of the handler's closure *)
StartCombat ==
    /\ gs.zone < MaxZone
    /\ Commit(startCombatU(gs, generateEnemy(view.zone)))
    /\ answers' = Outdated(answers)
    /\ UNCHANGED <<achTimers, nextId>>

(* lines 561-708: the handler runs *)
AttackCall(hit, category, coinDraw, gemDraw) ==
    /\ gs.statistics.totalQuestionsAnswered < MaxQuestions
    /\ achTimers < MaxTimers
    /\ Commit(attackAll(gs, hit, category, coinDraw, gemDraw))
    /\ achTimers' = achTimers + 1
    /\ UNCHANGED nextId

(* lines 561-708: attack called by the presentation with the answer's outcome *)
Attack(hit, category, coinDraw, gemDraw) ==
    /\ AttackCall(hit, category, coinDraw, gemDraw)
    /\ UNCHANGED answers

(* Combat, lines 71-80: an answer is given (or the question times out) while *)
(* the component shows the store's enemy; the attack is put off by 2000 ms   *)
HandleAnswer(isCorrect, category) ==
    /\ InCombat(gs)
    /\ dirty = 0
    /\ ~IsAnswering
    /\ Len(answers) < MaxAnswers
    /\ answers' = Append(answers, [isCorrect |-> isCorrect, category |-> category,
                                   stale |-> FALSE, mounted |-> TRUE])
    /\ UNCHANGED <<gs, view, dirty, isLoading, storage, achTimers, nextId>>

(* Combat, lines 81-91: the oldest reveal delay elapses and calls onAttack *)
DeferredAttack(coinDraw, gemDraw) ==
    /\ answers # <<>>
    /\ AttackCall(Head(answers).isCorrect, Head(answers).category, coinDraw, gemDraw)
    /\ answers' = Tail(answers)

(* line 707: the timer of attack fires *)
AchievementTimer ==
    /\ achTimers > 0
    /\ Commit(checkAndUnlockAchievementsU(gs))
    /\ achTimers' = achTimers - 1
    /\ UNCHANGED <<nextId, answers>>

(* lines 710-724 *)
ResetGame ==
    /\ dirty < MaxBatch
    /\ gs' = resetState
    /\ dirty' = dirty + 1
    /\ storage' = None
    /\ UNCHANGED <<view, isLoading, achTimers, nextId, answers>>

(* the transitions of combat and progression *)
Next ==
    \/ Load
    \/ Render
    \/ \E mode \in Modes : SetGameMode(mode)
    \/ UpgradeResearch
    \/ StartCombat
    \/ \E hit \in BOOLEAN, category \in Categories,
          coinDraw \in CoinDraws, gemDraw \in GemDraws :
            Attack(hit, category, coinDraw, gemDraw)
    \/ AchievementTimer
    \/ ResetGame

Spec == Init /\ [][Next]_vars

(* the transitions of the shop and the inventory *)
NextShop ==
    \/ Load
    \/ Render
    \/ \E i \in 1..Len(view.weapons) : EquipWeapon(view.weapons[i])
    \/ \E i \in 1..Len(view.armor) : EquipArmor(view.armor[i])
    \/ \E id \in ItemIds(view.weapons) \cup {UnknownId} : UpgradeWeapon(id)
    \/ \E id \in ItemIds(view.armor) \cup {UnknownId} : UpgradeArmor(id)
    \/ \E id \in ItemIds(view.weapons) \cup {UnknownId} : SellWeapon(id)
    \/ \E id \in ItemIds(view.armor) \cup {UnknownId} : SellArmor(id)
    \/ UpgradeResearch
    \/ \E chestCost \in ChestCosts : OpenChest(chestCost)
    \/ ResetGame

SpecShop == Init /\ [][NextShop]_vars

(* A blob an earlier session left in storage: one weapon and one armor are   *)
(* owned, their upgradeCost and sellPrice any positive integers, and the     *)
(* gems of earlier victories are there to spend.                             *)
StockedGame(weaponCost, weaponPrice, armorCost, armorPrice) ==
    JSONstringify(stateToSave(
        [initialGameState EXCEPT
            !.gems = MaxCost + 1,
            !.inventory.weapons =
                <<[generateWeapon(FALSE, 1) EXCEPT !.upgradeCost = weaponCost,
                                                   !.sellPrice = weaponPrice]>>,
            !.inventory.armor =
                <<[generateArmor(FALSE, 2) EXCEPT !.upgradeCost = armorCost,
                                                  !.sellPrice = armorPrice]>>]))

(* the hook right after mount, a stocked game waiting in storage *)
InitUpgrade ==
    /\ gs = initialGameState
    /\ view = Snapshot(initialGameState)
    /\ dirty = 0
    /\ isLoading = TRUE
    /\ storage \in {Some(StockedGame(wc, wp, ac, ap)) :
                        wc \in 1..MaxCost, wp \in 1..MaxPrice,
                        ac \in 1..MaxCost, ap \in 1..MaxPrice}
    /\ achTimers = 0
    /\ nextId = 3
    /\ answers = <<>>

(* the transitions of the forge: equipping and upgrading what is owned *)
NextUpgrade ==
    \/ Load
    \/ Render
    \/ \E i \in 1..Len(view.weapons) : EquipWeapon(view.weapons[i])
    \/ \E i \in 1..Len(view.armor) : EquipArmor(view.armor[i])
    \/ \E id \in ItemIds(view.weapons) \cup {UnknownId} : UpgradeWeapon(id)
    \/ \E id \in ItemIds(view.armor) \cup {UnknownId} : UpgradeArmor(id)

SpecUpgrade == InitUpgrade /\ [][NextUpgrade]_vars

(* A blob an earlier session left in storage while a streak of correct       *)
(* answers was running; it has the shape of a save without the statistics,   *)
(* which the load then takes from the defaults (lines 133-137).              *)
StreakGame(current) ==
    LET saved == JSONstringify(stateToSave(
                    [initialGameState EXCEPT !.knowledgeStreak =
                        [current |-> current, best |-> current,
                         multiplier |-> StreakMultiplier(current),
                         lastCorrectTime |-> IF current > 0 THEN Some("Date") ELSE None]]))
    IN  [f \in DOMAIN saved \ {"statistics"} |-> saved[f]]

(* the hook right after mount, a game with a running streak waiting in storage *)
InitStreak ==
    /\ gs = initialGameState
    /\ view = Snapshot(initialGameState)
    /\ dirty = 0
    /\ isLoading = TRUE
    /\ storage \in {Some(StreakGame(current)) : current \in 0..MaxStreak}
    /\ achTimers = 0
    /\ nextId = 1
    /\ answers = <<>>

(* the transitions of a quiz session in normal mode *)
NextStreak ==
    \/ Load
    \/ Render
    \/ StartCombat
    \/ \E hit \in BOOLEAN, category \in Categories,
          coinDraw \in CoinDraws, gemDraw \in GemDraws :
            Attack(hit, category, coinDraw, gemDraw)
    \/ AchievementTimer

SpecStreak == InitStreak /\ [][NextStreak]_vars

(* A blob an earlier session left in storage during a survival run: two     *)
(* fights were lost, one life is left, the HP is the 0 the last loss left   *)
(* (survival never restores it) and a streak of correct answers is running. *)
SurvivalGame(current) ==
    JSONstringify(stateToSave(
        [initialGameState EXCEPT
            !.playerStats.hp = 0,
            !.gameMode = [initialGameMode EXCEPT !.current = "survival",
                                                 !.survivalLives = 1],
            !.knowledgeStreak =
                [current |-> current, best |-> current,
                 multiplier |-> StreakMultiplier(current),
                 lastCorrectTime |-> IF current > 0 THEN Some("Date") ELSE None]]))

(* the hook right after mount, a survival run waiting in storage *)
InitSurvival ==
    /\ gs = initialGameState
    /\ view = Snapshot(initialGameState)
    /\ dirty = 0
    /\ isLoading = TRUE
    /\ storage \in {Some(SurvivalGame(current)) : current \in 0..MaxStreak}
    /\ achTimers = 0
    /\ nextId = 1
    /\ answers = <<>>

(* the quiz session that continues the survival run *)
SpecSurvival == InitSurvival /\ [][NextStreak]_vars

(* A blob of an older shape, written before research, achievements, the      *)
(* collection book, streaks, modes and statistics existed: load refills the  *)
(* fields it lacks from the defaults (lines 129-138).                        *)
LegacyGame ==
    [coins |-> InitialCoins + 22, gems |-> 3, zone |-> 2,
     playerStats |-> initialPlayerStats, inventory |-> initialInventory]

(* A blob that holds a fight in progress: the state after startCombat and a  *)
(* miss, written as it is, without the clearing of lines 157-162.            *)
CombatGame ==
    JSONstringify(attackAll(startCombatU(initialGameState, generateEnemy(1)),
                            FALSE, "science", 14, 3))

(* the hook right after mount, with storage empty or holding one of the blobs *)
InitSession ==
    /\ gs = initialGameState
    /\ view = Snapshot(initialGameState)
    /\ dirty = 0
    /\ isLoading = TRUE
    /\ storage \in {None, Some(SavedGame), Some(LegacyGame), Some(CombatGame)}
    /\ achTimers = 0
    /\ nextId = 1
    /\ answers = <<>>

(* the transitions of a session: timers, persistence and fights *)
NextSession ==
    \/ Tick
    \/ Load
    \/ Render
    \/ StartCombat
    \/ \E hit \in BOOLEAN, category \in Categories,
          coinDraw \in CoinDraws, gemDraw \in GemDraws :
            Attack(hit, category, coinDraw, gemDraw)
    \/ AchievementTimer
    \/ ResetGame

SpecSession == InitSession /\ [][NextSession]_vars

(* React renders again after every change of the state *)
SpecSessionFair == SpecSession /\ WF_vars(Render)

(* every value of Math.floor(Math.random() * 3) + 1, line 631 *)
AllGemDraws == {1, 2, 3}

(* the hook right after mount on a fresh install *)
InitModes ==
    /\ gs = initialGameState
    /\ view = Snapshot(initialGameState)
    /\ dirty = 0
    /\ isLoading = TRUE
    /\ storage = None
    /\ achTimers = 0
    /\ nextId = 1
    /\ answers = <<>>

(* the transitions of fights in the three game modes, over every gem draw *)
NextModes ==
    \/ Load
    \/ Render
    \/ \E mode \in Modes : SetGameMode(mode)
    \/ StartCombat
    \/ \E hit \in BOOLEAN, category \in Categories,
          coinDraw \in CoinDraws, gemDraw \in AllGemDraws :
            Attack(hit, category, coinDraw, gemDraw)
    \/ AchievementTimer

SpecModes == InitModes /\ [][NextModes]_vars

(* the transitions of fights played through the Combat component: every     *)
(* attack is the deferred effect of an answer                                *)
NextCombat ==
    \/ Load
    \/ Render
    \/ StartCombat
    \/ \E isCorrect \in BOOLEAN, category \in Categories : HandleAnswer(isCorrect, category)
    \/ \E coinDraw \in CoinDraws, gemDraw \in GemDraws : DeferredAttack(coinDraw, gemDraw)
    \/ AchievementTimer
    \/ ResetGame

SpecCombat == InitModes /\ [][NextCombat]_vars

----------------------------------------------------------------------------
(* Vocabulary of the properties *)

(* a step of attack(hit, ...) *)
AttackStep(hit) ==
    \E category \in Categories, coinDraw \in CoinDraws, gemDraw \in GemDraws :
        Attack(hit, category, coinDraw, gemDraw)

(* a wrong answer that ends the fight: the player is defeated *)
LossStep == InCombat(gs) /\ AttackStep(FALSE) /\ ~gs'.inCombat

(* a correct answer that ends the fight: the enemy is defeated *)
WinStep == InCombat(gs) /\ AttackStep(TRUE) /\ ~gs'.inCombat

LastLine(s) == IF s.combatLog = <<>> THEN "" ELSE s.combatLog[Len(s.combatLog)]

----------------------------------------------------------------------------
(* C1: in every reachable state playerStats.hp <= playerStats.maxHp. *)
C1_HpWithinMaxHp == gs.playerStats.hp <= gs.playerStats.maxHp

(* C1 witness: research has raised maxHp and a fight has lowered hp below it *)
C1_Witness ==
    /\ gs.research.level >= 1
    /\ gs.playerStats.maxHp > InitialHp
    /\ gs.inCombat
    /\ 0 < gs.playerStats.hp
    /\ gs.playerStats.hp < gs.playerStats.maxHp

(* C2: coins is non-negative in every reachable state, also when openChest  *)
(* and upgradeResearch are issued back to back before a render.             *)
C2_CoinsNonNegative == gs.coins >= 0

(* C3: openChest(cost) invoked while the store's coins are below cost leaves *)
(* the whole state unchanged.                                                *)
C3_PoorChestChangesNothing ==
    [][\A chestCost \in ChestCosts :
          (gs.coins < chestCost /\ OpenChest(chestCost)) => gs' = gs]_vars

(* C4: in combat every attack(hit = true) lowers the enemy's HP by at least  *)
(* 1; while the enemy survives, zone is unchanged and the fight goes on, and *)
(* the hit that brings it to 0 leaves zone one higher, inCombat false and    *)
(* currentEnemy absent.                                                      *)
C4_HitsWinTheFight ==
    [][(InCombat(gs) /\ AttackStep(TRUE)) =>
          \/ /\ InCombat(gs')
             /\ gs'.zone = gs.zone
             /\ The(gs'.currentEnemy).hp < The(gs.currentEnemy).hp
             /\ The(gs'.currentEnemy).hp > 0
          \/ /\ ~gs'.inCombat
             /\ gs'.currentEnemy = None
             /\ gs'.zone = gs.zone + 1]_vars

(* C4 witness: a fight of two hits has been won at zone 2 *)
C4_Witness ==
    /\ gs.combatLog = <<"encounter", "deal", "deal", "defeated", "earned">>
    /\ gs.zone = 3
    /\ ~gs.inCombat

(* C5: in survival mode the attack that brings the player's HP to 0 takes   *)
(* exactly one life when lives remain afterwards; when none remains, zone   *)
(* becomes 1, the mode normal with full lives, the streak 0, combat cleared. *)
C5_SurvivalLoss ==
    [][(gs.gameMode.current = "survival" /\ LossStep) =>
          /\ gs'.playerStats.hp = 0
          /\ gs'.currentEnemy = None
          /\ IF gs.gameMode.survivalLives - 1 > 0
             THEN /\ gs'.gameMode.survivalLives = gs.gameMode.survivalLives - 1
                  /\ gs'.gameMode.current = "survival"
                  /\ gs'.zone = gs.zone
             ELSE /\ gs'.zone = 1
                  /\ gs'.gameMode.current = "normal"
                  /\ gs'.gameMode.survivalLives = gs'.gameMode.maxSurvivalLives
                  /\ gs'.knowledgeStreak.current = 0]_vars

(* C5 witness: the last life was lost after a victory: the run is over *)
C5_Witness ==
    /\ LastLine(gs) = "gameOver"
    /\ gs.statistics.zonesReached >= 2
    /\ gs.zone = 1
    /\ gs.gameMode.current = "normal"

(* C6: survival mode gives one life only: the first loss in survival mode   *)
(* ends the run (zone back to 1, mode back to normal).                      *)
C6_OneLifeOnly ==
    [][(gs.gameMode.current = "survival" /\ LossStep) =>
          (gs'.zone = 1 /\ gs'.gameMode.current = "normal")]_vars

(* the survival run ends: the last life is lost *)
HardResetStep == gs.gameMode.current = "survival" /\ gs.gameMode.survivalLives = 1 /\ LossStep

(* C7 as stated: zone never decreases, and changes only by +1 on a combat win. *)
C7_ZoneMonotonic ==
    [][/\ gs'.zone >= gs.zone
       /\ gs'.zone # gs.zone => (WinStep /\ gs'.zone = gs.zone + 1)]_vars

(* C7 amended: zone is unchanged by every transition but these: a combat win *)
(* raises it by exactly 1; the loss of the last survival life and resetGame  *)
(* set it to 1; the initial load replaces it by the stored zone.             *)
C7_ZoneSteps ==
    [][\/ gs'.zone = gs.zone
       \/ WinStep /\ gs'.zone = gs.zone + 1
       \/ HardResetStep /\ gs'.zone = 1
       \/ ResetGame /\ gs'.zone = 1
       \/ Load /\ IsSome(storage) /\ gs'.zone = The(storage).zone]_vars

(* C7 witness: zone is back at 1 after zone 2 had been reached in the run *)
C7_Witness ==
    /\ gs.zone = 1
    /\ gs.statistics.zonesReached >= 2
    /\ LastLine(gs) = "gameOver"
    /\ gs.knowledgeStreak.best >= 1

(* C8: selling the equipped weapon or armor changes nothing; selling an     *)
(* owned item that is not equipped credits exactly its sellPrice and removes *)
(* exactly that item.                                                        *)
SaleEffect(items, current, id, after, coinsAfter) ==
    LET owned == {i \in 1..Len(items) : items[i].id = id} IN
    IF owned = {} \/ (IsSome(current) /\ The(current).id = id)
    THEN gs' = gs
    ELSE \E i \in owned :
            /\ coinsAfter = gs.coins + items[i].sellPrice
            /\ Len(after) = Len(items) - 1
            /\ \A j \in 1..Len(after) : after[j] = IF j < i THEN items[j] ELSE items[j + 1]

C8_Selling ==
    [][/\ \A id \in ItemIds(view.weapons) \cup {UnknownId} :
            SellWeapon(id) =>
              /\ SaleEffect(gs.inventory.weapons, gs.inventory.currentWeapon, id,
                            gs'.inventory.weapons, gs'.coins)
              /\ gs' = [gs EXCEPT !.coins = gs'.coins,
                                  !.inventory.weapons = gs'.inventory.weapons]
       /\ \A id \in ItemIds(view.armor) \cup {UnknownId} :
            SellArmor(id) =>
              /\ SaleEffect(gs.inventory.armor, gs.inventory.currentArmor, id,
                            gs'.inventory.armor, gs'.coins)
              /\ gs' = [gs EXCEPT !.coins = gs'.coins,
                                  !.inventory.armor = gs'.inventory.armor]]_vars

(* C8 witness: an item has been sold while another weapon is equipped and owned *)
C8_Witness ==
    /\ IsSome(gs.inventory.currentWeapon)
    /\ The(gs.inventory.currentWeapon).id \in ItemIds(gs.inventory.weapons)
    /\ Len(gs.inventory.weapons) + Len(gs.inventory.armor) < nextId - 1
    /\ gs.coins = InitialCoins - 100 + 25

(* the equipped reference names an owned entry with the same level and prices *)
EquippedIsOwned(current, items) ==
    IsSome(current) =>
        \E i \in 1..Len(items) :
            /\ items[i].id = The(current).id
            /\ items[i].level = The(current).level
            /\ items[i].upgradeCost = The(current).upgradeCost
            /\ items[i].sellPrice = The(current).sellPrice

(* C10: currentWeapon / currentArmor is absent or is an entry of the         *)
(* inventory, with the same level, upgradeCost and sellPrice.                *)
C10_EquippedInInventory ==
    /\ EquippedIsOwned(gs.inventory.currentWeapon, gs.inventory.weapons)
    /\ EquippedIsOwned(gs.inventory.currentArmor, gs.inventory.armor)

(* the items a successful upgrade changes in this step: <<before, after>> *)
UpgradedPairs ==
    {<<gs.inventory.weapons[i], gs'.inventory.weapons[i]>> :
        i \in {j \in 1..Len(gs.inventory.weapons) :
                  /\ UpgradeWeapon(gs.inventory.weapons[j].id)
                  /\ gs.gems >= gs.inventory.weapons[j].upgradeCost}}
    \cup
    {<<gs.inventory.armor[i], gs'.inventory.armor[i]>> :
        i \in {j \in 1..Len(gs.inventory.armor) :
                  /\ UpgradeArmor(gs.inventory.armor[j].id)
                  /\ gs.gems >= gs.inventory.armor[j].upgradeCost}}

(* after.upgradeCost = floor(1.5 x before.upgradeCost) and                   *)
(* after.sellPrice = floor(1.2 x before.sellPrice), stated without division  *)
FlooredScaling(before, after) ==
    /\ 2 * after.upgradeCost <= 3 * before.upgradeCost
    /\ 3 * before.upgradeCost < 2 * after.upgradeCost + 2
    /\ 5 * after.sellPrice <= 6 * before.sellPrice
    /\ 6 * before.sellPrice < 5 * after.sellPrice + 5

(* C9 as stated: every successful upgradeWeapon / upgradeArmor raises the    *)
(* item's level by exactly 1 and makes its upgradeCost (floor of 1.5 x old)  *)
(* and its sellPrice (floor of 1.2 x old) strictly greater than before.      *)
C9_UpgradeRaisesPrices ==
    [][\A pair \in UpgradedPairs :
          /\ pair[2].level = pair[1].level + 1
          /\ FlooredScaling(pair[1], pair[2])
          /\ pair[2].upgradeCost > pair[1].upgradeCost
          /\ pair[2].sellPrice > pair[1].sellPrice]_vars

(* C9 amended: every successful upgrade raises the level by exactly 1, sets  *)
(* upgradeCost to floor(1.5 x old) and sellPrice to floor(1.2 x old);        *)
(* neither decreases, upgradeCost grows exactly when the old one is at least *)
(* 2 and sellPrice grows exactly when the old one is at least 5.             *)
C9_UpgradeScalesPrices ==
    [][\A pair \in UpgradedPairs :
          /\ pair[2].level = pair[1].level + 1
          /\ FlooredScaling(pair[1], pair[2])
          /\ pair[2].upgradeCost >= pair[1].upgradeCost
          /\ pair[2].sellPrice >= pair[1].sellPrice
          /\ (pair[2].upgradeCost > pair[1].upgradeCost) <=> (pair[1].upgradeCost >= 2)
          /\ (pair[2].sellPrice > pair[1].sellPrice) <=> (pair[1].sellPrice >= 5)]_vars

(* C9 witness: the weapon was upgraded at cost 1 and price 4 and kept both,  *)
(* the armor was upgraded at cost 4 and price 6 and both grew                *)
C9_Witness ==
    /\ \E i \in 1..Len(gs.inventory.weapons) :
          /\ gs.inventory.weapons[i].level = 2
          /\ gs.inventory.weapons[i].upgradeCost = 1
          /\ gs.inventory.weapons[i].sellPrice = 4
    /\ \E i \in 1..Len(gs.inventory.armor) :
          /\ gs.inventory.armor[i].level = 2
          /\ gs.inventory.armor[i].upgradeCost = 6
          /\ gs.inventory.armor[i].sellPrice = 7

(* the multiplier (in tenths) is min(1 + floor(current / 5) x 0.1, 2.0),     *)
(* stated without division                                                   *)
StreakMultiplierIs(streak) ==
    /\ streak.multiplier >= 10
    /\ streak.multiplier <= 20
    /\ 5 * (streak.multiplier - 10) <= streak.current
    /\ streak.multiplier < 20 => streak.current < 5 * (streak.multiplier - 10) + 5
    /\ streak.current = 0 => streak.multiplier = 10
    /\ streak.current = 5 => streak.multiplier = 11
    /\ streak.current = 25 => streak.multiplier = 15
    /\ streak.current >= 50 => streak.multiplier = 20

(* C11: the streak multiplier updateKnowledgeStreak computes equals          *)
(* min(1 + floor(current / 5) x 0.1, 2.0) for every streak length: it is     *)
(* non-decreasing in current, never exceeds 2.0, and is 1.0 at 0, 1.1 at 5,  *)
(* 1.5 at 25 and 2.0 at 50 and every longer streak.                          *)
C11_StreakMultiplier ==
    [][/\ StreakMultiplierIs(gs.knowledgeStreak)
       /\ StreakMultiplierIs(gs'.knowledgeStreak)
       /\ gs'.knowledgeStreak.current >= gs.knowledgeStreak.current
            => gs'.knowledgeStreak.multiplier >= gs.knowledgeStreak.multiplier]_vars

(* C11 witness: a correct answer has carried a streak past 50 *)
C11_Witness ==
    /\ gs.knowledgeStreak.current = 52
    /\ gs.knowledgeStreak.multiplier = 20
    /\ gs.statistics.correctAnswers = 2

(* C12: recording an item whose name is already discovered in its category  *)
(* changes neither totalWeaponsFound / totalArmorFound nor the rarity tally  *)
(* nor itemsCollected: over any sequence of chest openings every name is     *)
(* counted exactly once, so the counters equal the numbers of names.         *)
C12_NamesCountedOnce ==
    LET cb == gs.collectionBook
        names == Cardinality(cb.weapons) + Cardinality(cb.armor)
    IN  /\ cb.totalWeaponsFound = Cardinality(cb.weapons)
        /\ cb.totalArmorFound = Cardinality(cb.armor)
        /\ cb.rarityStats["common"] + cb.rarityStats["rare"] + cb.rarityStats["epic"]
             + cb.rarityStats["legendary"] + cb.rarityStats["mythical"] = names
        /\ gs.statistics.itemsCollected = names
        /\ \A i \in 1..Len(gs.inventory.weapons) : gs.inventory.weapons[i].name \in cb.weapons
        /\ \A i \in 1..Len(gs.inventory.armor) : gs.inventory.armor[i].name \in cb.armor

(* C12 witness: chests have yielded three weapons of one name, counted once *)
C12_Witness ==
    /\ Len(gs.inventory.weapons) = 3
    /\ gs.collectionBook.weapons = {"Sword"}
    /\ gs.collectionBook.totalWeaponsFound = 1
    /\ gs.statistics.itemsCollected = 1

(* the fields a save keeps: all but the combat in progress *)
PersistedFields == DOMAIN initialGameState \ {"currentEnemy", "inCombat", "combatLog"}

(* C13: for every reachable state s, loading the snapshot saved from s       *)
(* yields a state equal to s on every persisted field (currencies, zone,     *)
(* playerStats, inventory, research, isPremium, achievements, collection     *)
(* book, knowledgeStreak, gameMode, statistics counters).                    *)
C13_RoundTrip ==
    LET back == loadedState(JSONstringify(stateToSave(gs)))
    IN  \A f \in PersistedFields : back[f] = gs[f]

(* C14: invoking checkAndUnlockAchievements twice in succession with no      *)
(* other transition in between changes nothing the second time: no           *)
(* achievement is unlocked and no coins or gems are credited.                *)
C14_SecondCheckIdle ==
    LET once == checkAndUnlockAchievementsU(gs)
    IN  /\ checkAchievements(once) = {}
        /\ checkAndUnlockAchievementsU(once) = once

(* C14 witness: the check after the first victory has unlocked first_victory *)
(* and credited its 50 coins on top of the 22 of the fight                   *)
C14_Witness ==
    /\ gs.achievements["first_victory"]
    /\ gs.statistics.coinsEarned = 22
    /\ gs.coins = InitialCoins + 22 + 50
    /\ gs.knowledgeStreak.lastCorrectTime = Some("Date")
    /\ achTimers = 0

(* the achievements this step unlocks *)
UnlockedByStep == {a \in AchievementIds : ~gs.achievements[a] /\ gs'.achievements[a]}

(* C15 as stated: once an achievement is marked unlocked in the catalog it   *)
(* stays unlocked in every later state, whatever the transitions.            *)
C15_UnlockedForever ==
    [][\A a \in AchievementIds : gs.achievements[a] => gs'.achievements[a]]_vars

(* C15 amended: an unlocked achievement stays unlocked across every          *)
(* transition except resetGame, which locks the whole catalog again, and the *)
(* initial load, which installs the stored catalog; an achievement check     *)
(* credits exactly the rewards of the achievements it unlocks in that step.  *)
C15_UnlockedUntilReset ==
    [][/\ (\A a \in AchievementIds : gs.achievements[a] => gs'.achievements[a])
            \/ ResetGame
            \/ Load
       /\ AchievementTimer =>
            /\ gs'.coins = gs.coins + SumCoins(UnlockedByStep)
            /\ gs'.gems = gs.gems + SumGems(UnlockedByStep)
       /\ UpgradeResearch =>
            /\ gs'.coins = gs.coins - (gs'.research.totalSpent - gs.research.totalSpent)
                             + SumCoins(UnlockedByStep)
            /\ gs'.gems = gs.gems + SumGems(UnlockedByStep)]_vars

(* C15 witness: first_victory was unlocked after the first fight and is      *)
(* still unlocked, its 50 coins credited once, after the second victory      *)
C15_Witness ==
    /\ gs.achievements["first_victory"]
    /\ gs.zone = 3
    /\ gs.statistics.coinsEarned = 22 + 30
    /\ gs.coins = InitialCoins + 22 + 30 + 50

(* C16: an attack issued while the store is Idle (no enemy or inCombat       *)
(* false) leaves the state unchanged once the attack and the achievement     *)
(* check it schedules have run, no other follow-up being pending:            *)
(* statistics, streak, combat log, currencies, achievements and HP are as    *)
(* before.                                                                   *)
C16_IdleAttackChangesNothing ==
    (~InCombat(gs) /\ achTimers = 0) =>
        \A hit \in BOOLEAN, category \in Categories,
           coinDraw \in CoinDraws, gemDraw \in GemDraws :
            checkAndUnlockAchievementsU(attackAll(gs, hit, category, coinDraw, gemDraw)) = gs

(* no combat in s *)
CombatCleared(s) == s.currentEnemy = None /\ ~s.inCombat /\ s.combatLog = <<>>

(* C17: combat is never persisted: every snapshot written to storage has     *)
(* currentEnemy absent, inCombat false and an empty combatLog, and the state *)
(* right after a load is Idle with an empty combatLog whatever the stored    *)
(* blob contains.                                                            *)
C17_CombatNeverPersisted ==
    [][/\ (storage' # storage /\ IsSome(storage')) => CombatCleared(The(storage'))
       /\ (Load /\ IsSome(storage)) => CombatCleared(gs')]_vars

(* C17 witness: the blob holding a fight was loaded (hp 90 at zone 1 with no *)
(* fight), a new fight was started and the snapshot written during it holds  *)
(* no combat                                                                 *)
C17_Witness ==
    /\ ~isLoading
    /\ gs.playerStats.hp = 90
    /\ gs.zone = 1
    /\ InCombat(gs)
    /\ gs.combatLog # <<>>
    /\ dirty = 0
    /\ IsSome(storage)
    /\ The(storage).playerStats.hp = 90
    /\ CombatCleared(The(storage))

(* storage holds the snapshot of s *)
SavedIs(s, stored) == IsSome(stored) /\ The(stored) = JSONstringify(stateToSave(s))

(* C18: no save is issued before the initial load has completed, and after   *)
(* it has completed every committed change of the state is followed by a     *)
(* save of that state: once the render that follows the changes has run,     *)
(* storage holds the snapshot of the current state.                          *)
C18_SaveAfterLoad ==
    /\ [][/\ isLoading => (storage' = storage \/ storage' = None)
          /\ (~isLoading' /\ dirty' = 0) => SavedIs(gs', storage')]_vars
    /\ (~isLoading /\ dirty > 0) ~> (~isLoading /\ dirty = 0 /\ SavedIs(gs, storage))

(* C18 witness: the load found nothing stored, then a second of play time    *)
(* was committed and saved                                                   *)
C18_Witness ==
    /\ ~isLoading
    /\ dirty = 0
    /\ gs.statistics.totalPlayTime = 1
    /\ gs.coins = InitialCoins
    /\ gs.zone = 1
    /\ IsSome(storage)
    /\ The(storage).statistics.totalPlayTime = 1

(* the step changes field f of the state *)
Changes(f) == gs'[f] # gs[f]

(* the fields C19 names *)
ProgressFields ==
    {"coins", "zone", "inventory", "research", "achievements", "collectionBook", "statistics"}

(* the step puts all of them back to their initial values at once *)
ReplacesProgress ==
    /\ \A f \in ProgressFields : gs'[f] = initialGameState[f]
    /\ Cardinality({f \in ProgressFields : Changes(f)}) >= 2

(* every operation but load and resetGame changes only the fields of its own *)
(* transition: a field changes only in a step of an operation that owns it   *)
OwnFieldsOnly ==
    LET tick == Tick
        mode == \E m \in Modes : SetGameMode(m)
        equip == \/ \E i \in 1..Len(view.weapons) : EquipWeapon(view.weapons[i])
                 \/ \E i \in 1..Len(view.armor) : EquipArmor(view.armor[i])
        upgrade == \/ \E id \in ItemIds(view.weapons) \cup {UnknownId} : UpgradeWeapon(id)
                   \/ \E id \in ItemIds(view.armor) \cup {UnknownId} : UpgradeArmor(id)
        sell == \/ \E id \in ItemIds(view.weapons) \cup {UnknownId} : SellWeapon(id)
                \/ \E id \in ItemIds(view.armor) \cup {UnknownId} : SellArmor(id)
        research == UpgradeResearch
        chest == \E chestCost \in ChestCosts : OpenChest(chestCost)
        start == StartCombat
        attack == \E hit \in BOOLEAN, category \in Categories,
                     coinDraw \in CoinDraws, gemDraw \in GemDraws :
                       Attack(hit, category, coinDraw, gemDraw)
        timer == AchievementTimer
    IN  /\ Changes("coins") => attack \/ timer \/ research \/ sell \/ chest
        /\ Changes("gems") => attack \/ timer \/ research \/ upgrade \/ chest
        /\ Changes("zone") => attack
        /\ Changes("isPremium") => attack
        /\ Changes("playerStats") => attack \/ start \/ research \/ equip \/ upgrade
        /\ Changes("inventory") => equip \/ upgrade \/ sell \/ chest
        /\ Changes("currentEnemy") => attack \/ start
        /\ Changes("inCombat") => attack \/ start
        /\ Changes("combatLog") => attack \/ start
        /\ Changes("research") => research
        /\ Changes("achievements") => timer \/ research \/ chest
        /\ Changes("collectionBook") => chest
        /\ Changes("knowledgeStreak") => attack
        /\ Changes("gameMode") => mode \/ attack
        /\ Changes("statistics") => attack \/ tick \/ chest

(* C19 as stated: load is the only operation that replaces the whole state;  *)
(* every other operation changes only the fields of its own transition and   *)
(* never resets currencies, zone, inventory, research, achievements,         *)
(* collection book and statistics together.                                  *)
C19_OnlyLoadReplaces ==
    [][gs' = gs \/ Load \/ (OwnFieldsOnly /\ ~ReplacesProgress)]_vars

(* C19 amended: load and resetGame are the only operations that replace the  *)
(* whole state; every other operation changes only the fields of its own     *)
(* transition and never resets those fields together.                        *)
C19_LoadAndResetReplace ==
    [][gs' = gs \/ Load \/ ResetGame \/ (OwnFieldsOnly /\ ~ReplacesProgress)]_vars

(* C19 witness: the survival run ended at zone 1 with 0 HP, and the research *)
(* bought before it, the achievement and the statistics are still there      *)
C19_Witness ==
    /\ gs.zone = 1
    /\ gs.playerStats.hp = 0
    /\ gs.gameMode.current = "normal"
    /\ gs.research.level = 1
    /\ gs.achievements["first_victory"]
    /\ gs.statistics.zonesReached = 2

(* lines 572-612 and 657: the answer ends the fight, the enemy's HP or the *)
(* player's HP reaches 0                                                    *)
Resolves(prev, hit) ==
    LET enemy == The(prev.currentEnemy)
    IN  IF hit
        THEN HpAfter(enemy.hp, Damage(prev.playerStats.atk, enemy.def)) <= 0
        ELSE HpAfter(prev.playerStats.hp, Damage(enemy.atk, prev.playerStats.def)) <= 0

(* no enemy and not in combat *)
Idle(s) == s.currentEnemy = None /\ ~s.inCombat

(* C20: in every reachable state inCombat is true exactly when currentEnemy  *)
(* is present, and every answer that resolves the fight (win, loss, survival *)
(* life lost, survival hard reset) leaves the state Idle.                    *)
C20_CombatFlagMatchesEnemy ==
    /\ [](gs.inCombat <=> IsSome(gs.currentEnemy))
    /\ [][\A hit \in BOOLEAN :
            InCombat(gs) /\ Resolves(gs, hit) /\ AttackStep(hit) => Idle(gs')]_vars

(* C20 witness: a survival run ended by the hard reset, the state is Idle *)
C20_Witness ==
    /\ Idle(gs)
    /\ Len(gs.combatLog) > 0
    /\ gs.combatLog[Len(gs.combatLog)] = "gameOver"
    /\ gs.gameMode.current = "normal"

(* the coins and gems a win pays when the multipliers are taken from streak *)
RewardWith(prev, streak, coinDraw, gemDraw) ==
    LET m == RewardMultipliers([prev EXCEPT !.knowledgeStreak = streak])
    IN  [coins |-> ((prev.zone * 8 + coinDraw) * m.coins) \div 1000,
         gems |-> (gemDraw * m.gems) \div 1000]

(* C21: attack first updates the knowledge streak with the answer and then   *)
(* resolves combat: the coins and gems a win credits are scaled by the       *)
(* multiplier of the streak that already counts the winning answer (a win on *)
(* the answer that brings current to 5 is paid at 1.1x).                     *)
C21_RewardCountsWinningAnswer ==
    [][WinStep =>
        \E coinDraw \in CoinDraws, gemDraw \in GemDraws :
            LET paid == RewardWith(gs, gs'.knowledgeStreak, coinDraw, gemDraw)
            IN  /\ gs'.coins = gs.coins + paid.coins
                /\ gs'.gems = gs.gems + paid.gems]_vars

(* C22: speed mode gives +25% gem rewards: with streak multiplier 1.0 and   *)
(* the same base gem draw (1, 2 or 3), a win in speed mode credits strictly *)
(* more gems than the same win in normal mode.                              *)
C22_SpeedPaysMoreGems ==
    [][\A category \in Categories, coinDraw \in CoinDraws, gemDraw \in AllGemDraws :
         /\ gs.gameMode.current = "speed"
         /\ gs.knowledgeStreak.multiplier = 10
         /\ InCombat(gs)
         /\ Attack(TRUE, category, coinDraw, gemDraw)
         /\ ~gs'.inCombat
         => gs'.gems >
              attackAll(setGameModeU(gs, "normal"), TRUE, category, coinDraw, gemDraw).gems]_vars

(* C23: startCombat sets playerStats.hp to maxHp when the current mode is   *)
(* normal or speed and leaves hp exactly as it was when the current mode is *)
(* survival; in both cases it sets currentEnemy and inCombat = true.        *)
C23_StartCombatHp ==
    [][StartCombat =>
        /\ gs.gameMode.current \in {"normal", "speed"}
              => gs'.playerStats.hp = gs.playerStats.maxHp
        /\ gs.gameMode.current = "survival"
              => gs'.playerStats.hp = gs.playerStats.hp
        /\ IsSome(gs'.currentEnemy)
        /\ gs'.inCombat]_vars

(* C23 witness: a fight has just started in survival mode with the HP a     *)
(* lost fight left, below maxHp                                             *)
C23_Witness ==
    /\ InCombat(gs)
    /\ gs.combatLog = <<"encounter">>
    /\ gs.gameMode.current = "survival"
    /\ gs.gameMode.survivalLives < InitialLives
    /\ gs.playerStats.hp < gs.playerStats.maxHp

(* C24: startCombat appends the encounter line to the combat log: the log   *)
(* after startCombat is the log before it followed by exactly one new line, *)
(* so the lines of earlier fights of the session stay in order before it.   *)
C24_EncounterLineAppended ==
    [][StartCombat => gs'.combatLog = gs.combatLog \o <<"encounter">>]_vars

(* value = floor(base x (1 + bonus / 100)), stated without division *)
IsFloorOfBonus(value, base, bonus) ==
    /\ 100 * value <= base * (100 + bonus)
    /\ base * (100 + bonus) < 100 * (value + 1)

(* baseAtk + (level - 1) x 10 of the equipped weapon, 0 if none *)
WeaponContribution(s) ==
    IF s.inventory.currentWeapon = None THEN 0
    ELSE LET w == The(s.inventory.currentWeapon) IN w.baseAtk + (w.level - 1) * 10

(* baseDef + (level - 1) x 5 of the equipped armor, 0 if none *)
ArmorContribution(s) ==
    IF s.inventory.currentArmor = None THEN 0
    ELSE LET a == The(s.inventory.currentArmor) IN a.baseDef + (a.level - 1) * 5

(* C25: after every completed intent (equip, upgrade, sell, upgradeResearch, *)
(* openChest, attack, load) atk = floor((baseAtk + weapon contribution) x    *)
(* bonus), def = floor((baseDef + armor contribution) x bonus) and maxHp =   *)
(* floor(baseHp x bonus), with the contributions of the currently equipped   *)
(* items and bonus = 1 + researchBonus(level, tier) / 100.                   *)
C25_DerivedStats ==
    LET bonus == calculateResearchBonus(gs.research.level, gs.research.tier)
    IN  /\ IsFloorOfBonus(gs.playerStats.atk, BaseAtk + WeaponContribution(gs), bonus)
        /\ IsFloorOfBonus(gs.playerStats.def, BaseDef + ArmorContribution(gs), bonus)
        /\ IsFloorOfBonus(gs.playerStats.maxHp, BaseHp, bonus)

(* C25 witness: an upgraded weapon and an armor are equipped and research   *)
(* has been bought                                                          *)
C25_Witness ==
    /\ gs.inventory.currentWeapon # None
    /\ The(gs.inventory.currentWeapon).level = 2
    /\ gs.inventory.currentArmor # None
    /\ gs.research.level = 1
    /\ gs.playerStats.atk = 73
    /\ gs.playerStats.def = 10
    /\ gs.playerStats.maxHp = 210

(* C26: in every reachable state speedModeActive is true exactly when      *)
(* gameMode.current is speed, and 1 <= survivalLives <= maxSurvivalLives =  *)
(* 3; setGameMode(survival) sets survivalLives to maxSurvivalLives, while   *)
(* setGameMode(normal) and setGameMode(speed) leave survivalLives unchanged. *)
C26_GameModeConsistent ==
    /\ [](/\ gs.gameMode.speedModeActive <=> gs.gameMode.current = "speed"
          /\ 1 <= gs.gameMode.survivalLives
          /\ gs.gameMode.survivalLives <= gs.gameMode.maxSurvivalLives
          /\ gs.gameMode.maxSurvivalLives = 3)
    /\ [][\A mode \in Modes :
            SetGameMode(mode) =>
                gs'.gameMode.survivalLives =
                    IF mode = "survival" THEN gs.gameMode.maxSurvivalLives
                    ELSE gs.gameMode.survivalLives]_vars

(* C26 witness: speed mode was chosen after two survival losses, the lives  *)
(* left are kept                                                            *)
C26_Witness ==
    /\ gs.gameMode.current = "speed"
    /\ gs.gameMode.speedModeActive
    /\ gs.gameMode.survivalLives = 1

(* C27: after every completed attack intent, including a survival hard     *)
(* reset, knowledgeStreak.multiplier equals min(1 + floor(current / 5) x    *)
(* 0.1, 2.0) for the stored current, and best >= current with best never    *)
(* decreasing.                                                              *)
C27_StreakAfterAttack ==
    [][\A hit \in BOOLEAN :
         AttackStep(hit) =>
            /\ StreakMultiplierIs(gs'.knowledgeStreak)
            /\ gs'.knowledgeStreak.best >= gs'.knowledgeStreak.current
            /\ gs'.knowledgeStreak.best >= gs.knowledgeStreak.best]_vars

(* C27 witness: the hard reset ended a survival run whose streak was paid   *)
(* at 1.5x; the stored streak is 0 at 1.0x and best keeps the 25            *)
C27_Witness ==
    /\ gs.gameMode.current = "normal"
    /\ LastLine(gs) = "gameOver"
    /\ gs.knowledgeStreak.current = 0
    /\ gs.knowledgeStreak.multiplier = 10
    /\ gs.knowledgeStreak.best = 25

(* the purchase of an upgrade of id is refused: the item is unknown or the  *)
(* gems do not cover its upgradeCost                                         *)
UpgradeRefused(items, id) ==
    LET found == FindById(items, id)
    IN  ~IsSome(found) \/ gs.gems < The(found).upgradeCost

(* C28: a purchase whose precondition fails leaves the whole state unchanged *)
(* once the intent has fully run: upgradeWeapon / upgradeArmor with an       *)
(* unknown id or gems < upgradeCost, and upgradeResearch with coins < 150,   *)
(* change no field (gems never become negative, no currency is credited).    *)
C28_RefusedPurchaseChangesNothing ==
    [][/\ \A id \in ItemIds(view.weapons) \cup {UnknownId} :
            UpgradeRefused(gs.inventory.weapons, id) /\ UpgradeWeapon(id) => gs' = gs
       /\ \A id \in ItemIds(view.armor) \cup {UnknownId} :
            UpgradeRefused(gs.inventory.armor, id) /\ UpgradeArmor(id) => gs' = gs
       /\ gs.coins < ResearchCost /\ UpgradeResearch => gs' = gs]_vars

(* C30: whenever the store is InCombat, playerStats.hp > 0 and             *)
(* currentEnemy.hp > 0: no fight starts or continues with a combatant at 0  *)
(* HP, in any game mode and after any sequence of losses.                   *)
C30_NoFightAtZeroHp ==
    InCombat(gs) => gs.playerStats.hp > 0 /\ The(gs.currentEnemy).hp > 0

(* C29: an answer's deferred effect (the attack applied two seconds after   *)
(* the answer) is applied only to the encounter in which the answer was      *)
(* given: if that encounter has ended or been replaced by a new enemy        *)
(* before the delay elapses, the stale attack changes nothing in the new     *)
(* encounter.                                                                *)
C29_StaleAnswerChangesNothing ==
    [][\A coinDraw \in CoinDraws, gemDraw \in GemDraws :
         /\ answers # <<>>
         /\ Head(answers).stale
         /\ DeferredAttack(coinDraw, gemDraw)
         => gs' = gs]_vars

(* C31: no committed transition is lost to the asynchronous load: a timer   *)
(* tick or a user intent committed before the initial load completes is      *)
(* still reflected in the state after the load has replaced it.  Before the  *)
(* load the counters of the store count exactly what was committed since     *)
(* mount, so after the load the seconds played and the questions answered    *)
(* are those of the stored game plus those committed before it.              *)
C31_NothingLostToLoad ==
    [][Load =>
        IF IsSome(storage)
        THEN LET stored == loadedState(The(storage)).statistics
             IN  /\ gs'.statistics.totalPlayTime =
                        stored.totalPlayTime + gs.statistics.totalPlayTime
                 /\ gs'.statistics.totalQuestionsAnswered =
                        stored.totalQuestionsAnswered
                            + gs.statistics.totalQuestionsAnswered
        ELSE gs' = gs]_vars

====
